---- MODULE Spec2Model ----
(***************************************************************************)
(* A model of jianshu2dayone's two converters:                             *)
(*   src/html2txt.py       extract_text_from_html, process_directory       *)
(*   src/html2markdown.py  convert_html_to_markdown,                       *)
(*                         process_directory_recursive, main               *)
(*                                                                         *)
(* Text is a sequence of characters and a character is its Unicode code    *)
(* point, so that stripping, case folding and concatenation are computed   *)
(* character by character. Str(<<"T", "\n">>) writes such a text.          *)
(*                                                                         *)
(* Specifications:                                                         *)
(*   ExtractSpec  one call of extract_text_from_html on a parsed document  *)
(*   Spec         one run of either script from the command line           *)
(*   FairSpec     Spec, with the run never stopping while a step remains   *)
(***************************************************************************)
EXTENDS Integers, Sequences, FiniteSets, TLC

\* ------------------------------------------------------------------ bounds

\* The longest list of direct children of the content container.
MaxChildren == 3

\* The most files the input directory tree holds.
MaxFiles == 3

\* ------------------------------------------------------------------- text

\* Notation: the code point of a character the model writes.
Ord(c) ==
  CASE c = "\t" -> 9
    [] c = "\n" -> 10
    [] c = "\r" -> 13
    [] c = " "  -> 32
    [] c = "-"  -> 45
    [] c = "."  -> 46
    [] c = "A"  -> 65
    [] c = "B"  -> 66
    [] c = "H"  -> 72
    [] c = "L"  -> 76
    [] c = "M"  -> 77
    [] c = "T"  -> 84
    [] c = "a"  -> 97
    [] c = "b"  -> 98
    [] c = "d"  -> 100
    [] c = "h"  -> 104
    [] c = "l"  -> 108
    [] c = "m"  -> 109
    [] c = "n"  -> 110
    [] c = "t"  -> 116
    [] c = "x"  -> 120

Str(s) == [k \in 1..Len(s) |-> Ord(s[k])]

\* No-break space, a whitespace character outside ASCII.
Nbsp == <<160>>

\* The characters str.strip() removes: those str.isspace() holds of.
IsSpace(c) ==
  c \in {9, 10, 11, 12, 13, 28, 29, 30, 31, 32, 133, 160, 5760}
         \cup (8192..8202) \cup {8232, 8233, 8239, 8287, 12288}

RECURSIVE LStrip(_)
LStrip(s) ==
  IF s # <<>> /\ IsSpace(Head(s)) THEN LStrip(Tail(s)) ELSE s

RECURSIVE RStrip(_)
RStrip(s) ==
  IF s # <<>> /\ IsSpace(s[Len(s)]) THEN RStrip(SubSeq(s, 1, Len(s) - 1)) ELSE s

\* str.strip(): leading and trailing whitespace removed.
Strip(s) == RStrip(LStrip(s))

\* Tag.get_text(strip=True) of an element holding one text node.
GetTextStrip(s) == Strip(s)

\* The part appended after the title (line 22).
TitleNewline == Str(<<"\n">>)

\* The separator part "\n---\n" (line 40).
Separator == Str(<<"\n", "-", "-", "-", "\n">>)

\* ------------------------------------------------------- parsed documents

NoText == <<>>

P(t)     == [kind |-> "p", text |-> t]
Hr       == [kind |-> "hr", text |-> NoText]
TextNode(t) == [kind |-> "text", text |-> t]
OtherTag == [kind |-> "other", text |-> NoText]

\* Direct children of the container the model draws from: paragraphs (plain,
\* padded with whitespace, blank), <hr>, a whitespace text node, a text node
\* with content, and an element that is neither <p> nor <hr>.
Elements ==
  { P(Str(<<"A">>)), P(Str(<<"B">>)), P(Str(<<"\t", "A", "\r", "\n">>)),
    P(Str(<<" ">>) \o Nbsp),
    Hr, TextNode(Str(<<"\n", "\t">>)), TextNode(Str(<<"x">>)), OtherTag }

\* Raw text of <h1 class="title">: plain, padded, empty, equal to a paragraph.
TitleTexts == { Str(<<"T">>), Str(<<" ", "T", "\n">>) \o Nbsp, <<>>, Str(<<"A">>) }

RECURSIVE SeqsUpTo(_, _)
SeqsUpTo(S, n) ==
  IF n = 0 THEN { <<>> }
  ELSE LET shorter == SeqsUpTo(S, n - 1)
       IN  shorter \cup { Append(s, e) : s \in { t \in shorter : Len(t) = n - 1 }, e \in S }

Documents ==
  [ hasTitle : {TRUE}, titleText : TitleTexts, hasDiv : {TRUE},
    children : SeqsUpTo(Elements, MaxChildren) ]
  \cup
  [ hasTitle : {FALSE}, titleText : {NoText}, hasDiv : {TRUE},
    children : SeqsUpTo(Elements, MaxChildren) ]
  \cup
  [ hasTitle : {TRUE}, titleText : TitleTexts, hasDiv : {FALSE}, children : {<<>>} ]
  \cup
  [ hasTitle : {FALSE}, titleText : {NoText}, hasDiv : {FALSE}, children : {<<>>} ]

\* --------------------------------------------- extract_text_from_html steps

\* One iteration of the loop over content_div.children (lines 27-40).
ScanStepNoDedup(parts, el) ==
  IF el.kind = "text" /\ Strip(el.text) = <<>> THEN parts
  ELSE IF el.kind = "p"
       THEN LET paragraph_text == GetTextStrip(el.text)
            IN  IF paragraph_text # <<>> THEN Append(parts, paragraph_text) ELSE parts
  ELSE IF el.kind = "hr"
       THEN IF parts # <<>> THEN Append(parts, Separator) ELSE parts
  ELSE parts

ScanStepKeepBlank(parts, el) ==
  IF el.kind = "text" /\ Strip(el.text) = <<>> THEN parts
  ELSE IF el.kind = "p" THEN Append(parts, GetTextStrip(el.text))
  ELSE IF el.kind = "hr"
       THEN IF parts # <<>> /\ parts[Len(parts)] # Separator
            THEN Append(parts, Separator) ELSE parts
  ELSE parts

ScanStep(parts, el) ==
  IF el.kind = "text" /\ Strip(el.text) = <<>> THEN parts
  ELSE IF el.kind = "p"
       THEN LET paragraph_text == GetTextStrip(el.text)
            IN  IF paragraph_text # <<>> THEN Append(parts, paragraph_text) ELSE parts
  ELSE IF el.kind = "hr"
       THEN IF parts # <<>> /\ parts[Len(parts)] # Separator
            THEN Append(parts, Separator) ELSE parts
  ELSE parts

\* filtered_parts (line 47): the parts that are not the empty string.
FilterParts(parts) == SelectSeq(parts, LAMBDA part : part # <<>>)

\* One iteration of the joining loop (lines 50-61) at index k (1-based) of the
\* filtered parts fp. The local `title` is bound only when the title tag was
\* found; evaluating `part == title` without it raises UnboundLocalError.
RenderStep(fp, k, out, bound, ttl) ==
  LET part == fp[k]
      out1 == out \o part
  IN  IF part # Separator /\ k < Len(fp) /\ fp[k + 1] # Separator
      THEN IF ~bound THEN [raised |-> TRUE, out |-> out1]
           ELSE IF ~(part = ttl /\ fp[k + 1] = TitleNewline)
                THEN IF fp[k + 1] # TitleNewline
                     THEN [raised |-> FALSE, out |-> out1 \o Str(<<"\n", "\n">>)]
                     ELSE [raised |-> FALSE, out |-> out1]
                ELSE [raised |-> FALSE, out |-> out1]
      ELSE IF part = Separator THEN [raised |-> FALSE, out |-> out1 \o Str(<<"\n">>)]
      ELSE IF part = TitleNewline THEN [raised |-> FALSE, out |-> out1 \o Str(<<"\n">>)]
      ELSE [raised |-> FALSE, out |-> out1]

\* The return expression (line 65): output_text.strip() + "\n".
FinishNoStrip(out) == out \o Str(<<"\n">>)

Finish(out) == Strip(out) \o Str(<<"\n">>)

\* What a call yields: a returned text, or a raised exception.
Returned(t) == [kind |-> "text", text |-> t]
Raised      == [kind |-> "raise", text |-> NoText]
Pending     == [kind |-> "none", text |-> NoText]

\* ------------------------------------------- the function as one operator

\* The parts after the title step (lines 18-22).
TitleParts(d) ==
  IF d.hasTitle THEN << GetTextStrip(d.titleText), TitleNewline >> ELSE <<>>

RECURSIVE ScanAll(_, _)
ScanAll(parts, els) ==
  IF els = <<>> THEN parts ELSE ScanAll(ScanStep(parts, Head(els)), Tail(els))

RECURSIVE RenderFrom(_, _, _, _, _)
RenderFrom(fp, k, out, bound, ttl) ==
  IF k > Len(fp) THEN Returned(Finish(out))
  ELSE LET r == RenderStep(fp, k, out, bound, ttl)
       IN  IF r.raised THEN Raised ELSE RenderFrom(fp, k + 1, r.out, bound, ttl)

PartsOf(d) ==
  IF d.hasDiv THEN ScanAll(TitleParts(d), d.children) ELSE TitleParts(d)

Extract(d) ==
  RenderFrom(FilterParts(PartsOf(d)), 1, <<>>, d.hasTitle,
             IF d.hasTitle THEN GetTextStrip(d.titleText) ELSE NoText)

\* ------------------------------------------------------------------ state

VARIABLES
  html,            \* the parsed document handed to extract_text_from_html
  pc,              \* where the call is
  title,           \* the local `title`
  titleBound,      \* whether the local `title` has been assigned
  text_parts,      \* the list text_parts
  pos,             \* the next child of content_div.children to visit
  filtered_parts,  \* the list filtered_parts
  i,               \* the joining loop's index (1-based)
  output_text,     \* the string output_text
  result           \* what the call yielded

xvars == << html, pc, title, titleBound, text_parts, pos, filtered_parts, i,
            output_text, result >>

VARIABLES
  script,      \* which script runs: "md" (html2markdown.py) or "txt" (html2txt.py)
  env,         \* what the run finds: dependency, command line, streams, input path
  tree,        \* the files under the input directory, in walk order
  cpc,         \* where the script is
  idx,         \* the next entry of the walk
  log,         \* one record per file handed to the converter, in order
  outputs,     \* the output files written, as paths under the output directory
  file_count,  \* process_directory_recursive's file_count
  uncaught,    \* the exception that ended the run uncaught, "none" if none did
  exit_code    \* the process's exit status, NotExited while it runs

cvars == << script, env, tree, cpc, idx, log, outputs, file_count, uncaught, exit_code >>

vars == << xvars, cvars >>

NotExited == -1

\* The command-line variables while only extract_text_from_html is studied.
CliIdle ==
  /\ script = "txt"
  /\ env = [depOk |-> TRUE, args |-> "ok", mkdirOk |-> TRUE, stdoutOk |-> TRUE, stderrOk |-> TRUE,
            pathKind |-> "dir", fileName |-> <<>>]
  /\ tree = <<>>
  /\ cpc = "idle"
  /\ idx = 1
  /\ log = <<>>
  /\ outputs = {}
  /\ file_count = 0
  /\ uncaught = "none"
  /\ exit_code = NotExited

ExtractInit ==
  /\ html \in Documents
  /\ pc = "find_title"
  /\ title = NoText
  /\ titleBound = FALSE
  /\ text_parts = <<>>
  /\ pos = 1
  /\ filtered_parts = <<>>
  /\ i = 1
  /\ output_text = <<>>
  /\ result = Pending
  /\ CliIdle

\* Lines 18-22.
FindTitle ==
  /\ pc = "find_title"
  /\ IF html.hasTitle
     THEN /\ title' = GetTextStrip(html.titleText)
          /\ titleBound' = TRUE
          /\ text_parts' = << GetTextStrip(html.titleText), TitleNewline >>
     ELSE UNCHANGED << title, titleBound, text_parts >>
  /\ pc' = "find_content"
  /\ UNCHANGED << html, pos, filtered_parts, i, output_text, result, cvars >>

\* Lines 25-26.
FindContent ==
  /\ pc = "find_content"
  /\ pc' = IF html.hasDiv THEN "scan" ELSE "filter"
  /\ UNCHANGED << html, title, titleBound, text_parts, pos, filtered_parts, i,
                  output_text, result, cvars >>

\* Lines 27-40, one child.
ScanChild ==
  /\ pc = "scan"
  /\ pos <= Len(html.children)
  /\ text_parts' = ScanStep(text_parts, html.children[pos])
  /\ pos' = pos + 1
  /\ UNCHANGED << html, pc, title, titleBound, filtered_parts, i, output_text, result, cvars >>

ScanEnd ==
  /\ pc = "scan"
  /\ pos > Len(html.children)
  /\ pc' = "filter"
  /\ UNCHANGED << html, title, titleBound, text_parts, pos, filtered_parts, i,
                  output_text, result, cvars >>

\* Lines 47-49.
Filter ==
  /\ pc = "filter"
  /\ filtered_parts' = FilterParts(text_parts)
  /\ output_text' = <<>>
  /\ i' = 1
  /\ pc' = "render"
  /\ UNCHANGED << html, title, titleBound, text_parts, pos, result, cvars >>

\* Lines 50-61, one part.
RenderPart ==
  /\ pc = "render"
  /\ i <= Len(filtered_parts)
  /\ LET r == RenderStep(filtered_parts, i, output_text, titleBound, title)
     IN  /\ output_text' = r.out
         /\ IF r.raised
            THEN /\ result' = Raised
                 /\ pc' = "done"
                 /\ i' = i
            ELSE /\ i' = i + 1
                 /\ UNCHANGED << pc, result >>
  /\ UNCHANGED << html, title, titleBound, text_parts, pos, filtered_parts, cvars >>

\* Line 65.
Return ==
  /\ pc = "render"
  /\ i > Len(filtered_parts)
  /\ result' = Returned(Finish(output_text))
  /\ pc' = "done"
  /\ UNCHANGED << html, title, titleBound, text_parts, pos, filtered_parts, i, output_text, cvars >>

ExtractNext ==
  \/ FindTitle
  \/ FindContent
  \/ ScanChild
  \/ ScanEnd
  \/ Filter
  \/ RenderPart
  \/ Return

ExtractSpec == ExtractInit /\ [][ExtractNext]_vars

\* ------------------------------------------------------- the two scripts

\* The call's variables while a whole script run is studied.
ExtractIdle ==
  /\ html = [hasTitle |-> FALSE, titleText |-> NoText, hasDiv |-> FALSE, children |-> <<>>]
  /\ pc = "idle"
  /\ title = NoText
  /\ titleBound = FALSE
  /\ text_parts = <<>>
  /\ pos = 1
  /\ filtered_parts = <<>>
  /\ i = 1
  /\ output_text = <<>>
  /\ result = Pending

\* Whether text s ends with text suf (str.endswith).
EndsWith(s, suf) ==
  Len(s) >= Len(suf) /\ SubSeq(s, Len(s) - Len(suf) + 1, Len(s)) = suf

\* The position of the last "." of a name, 0 when it has none (str.rfind).
LastDot(n) ==
  LET ds == { k \in 1..Len(n) : n[k] = Ord(".") }
  IN  IF ds = {} THEN 0 ELSE CHOOSE k \in ds : \A m \in ds : m <= k

\* os.path.splitext of a file name (html2markdown.py lines 76, 119): the name
\* is cut at its last dot, unless only dots stand before that dot.
Splitext(n) ==
  LET d == LastDot(n)
  IN  IF d = 0 \/ (\A k \in 1..(d - 1) : n[k] = Ord("."))
      THEN [root |-> n, ext |-> <<>>]
      ELSE [root |-> SubSeq(n, 1, d - 1), ext |-> SubSeq(n, d, Len(n))]

\* PurePath.suffix: what follows the last dot, the dot included, unless that
\* dot is the name's first or last character.
PathSuffix(n) ==
  LET d == LastDot(n)
  IN  IF 1 < d /\ d < Len(n) THEN SubSeq(n, d, Len(n)) ELSE <<>>

\* PurePath.with_suffix (html2txt.py line 104): the suffix is replaced, or the
\* new one appended to a name that has none.
WithSuffix(n, suf) ==
  SubSeq(n, 1, Len(n) - Len(PathSuffix(n))) \o suf

\* Extensions, as texts.
ExtHtml == Str(<<".", "h", "t", "m", "l">>)
ExtHtm  == Str(<<".", "h", "t", "m">>)
ExtTxt  == Str(<<".", "t", "x", "t">>)
ExtMd   == Str(<<".", "m", "d">>)
ExtUpperHtml == Str(<<".", "H", "T", "M", "L">>)
ExtMixedHtml == Str(<<".", "H", "t", "m", "l">>)
ExtMixedHtm  == Str(<<".", "h", "T", "m">>)

\* An entry of the input tree: its directory relative to the input root ("."
\* the root itself, "out" the script's own output directory), its name, and
\* what it is: a regular file, a directory, or a FIFO.
Entry(d, n, k) == [dir |-> d, name |-> n, kind |-> k]

\* A regular file, from the two halves of its name.
F(d, s, e) == Entry(d, s \o e, "file")

TreeFiles ==
  { F(".", Str(<<"a">>), ExtHtml), F(".", Str(<<"a">>), ExtHtm),
    F(".", <<>>, ExtHtml), F(".", Str(<<"n">>), ExtTxt),
    Entry(".", Str(<<"d">>) \o ExtHtml, "dir"),
    Entry(".", Str(<<"x">>) \o ExtHtml, "fifo"),
    F("sub", Str(<<"a">>), ExtHtml), F("sub", Str(<<"b">>), ExtMixedHtm),
    F("out", Str(<<"a">>), ExtHtml) }

\* str.lower() of one character: the capital letters of ASCII and Latin-1 fold
\* to the letter 32 code points on. Characters above U+00FF are left as they
\* are; none of them folds to a character of ".html".
LowerChar(c) ==
  IF c \in (65..90) \cup (192..214) \cup (216..222) THEN c + 32 ELSE c

\* str.lower().
Lower(e) == [k \in 1..Len(e) |-> LowerChar(e[k])]

\* file.lower().endswith(('.html', '.htm')) (html2markdown.py lines 73, 110).
IsHtmlName(n) == EndsWith(Lower(n), ExtHtml) \/ EndsWith(Lower(n), ExtHtm)

\* input_path.rglob('*.html') (html2txt.py line 84): the pattern is matched
\* against the name as written, capitals included.
RglobMatches(n) == EndsWith(n, ExtHtml)

\* html_file.relative_to(output_base_dir) succeeds (html2txt.py lines 86-91).
InOutputDir(f) == f.dir = "out"

\* A walk lists the root's entries first and each directory's entries together.
IsWalkOrder(t) ==
  /\ \A m, n \in 1..Len(t) : m # n => t[m] # t[n]
  /\ \A m, n \in 1..Len(t) : (m < n /\ t[n].dir = ".") => t[m].dir = "."
  /\ \A k, m, n \in 1..Len(t) : (k < m /\ m < n /\ t[k].dir = t[n].dir) => t[m].dir = t[k].dir

Trees == { t \in SeqsUpTo(TreeFiles, MaxFiles) : IsWalkOrder(t) }

\* What the loop iterates over: the entries os.walk lists as files, which are
\* those that are no directories (html2markdown.py lines 59, 72), or whatever
\* rglob matches by name, directories included (html2txt.py line 84).
Walk(sc, t) ==
  IF sc = "md"
  THEN SelectSeq(t, LAMBDA f : f.kind # "dir")
  ELSE SelectSeq(t, LAMBDA f : RglobMatches(f.name))

\* Whether the loop hands the entry to the converter (html2markdown.py line 73;
\* html2txt.py lines 86-91).
ShouldConvert(sc, f) ==
  IF sc = "md" THEN IsHtmlName(f.name) ELSE ~InOutputDir(f)

\* The output path, relative to the output directory (html2markdown.py lines
\* 62-78 and 118-122; html2txt.py lines 103-104).
OutputPath(sc, f) ==
  [dir  |-> f.dir,
   name |-> IF sc = "md" THEN Splitext(f.name).root \o ExtMd
                         ELSE WithSuffix(f.name, ExtTxt)]

\* What happens to one file. Its bytes decode as UTF-8 or they do not, and one
\* step at most fails: an open, the conversion, or the write of the output; or
\* an open never returns (nothing sets a timeout). With bytes that decode,
\* "read" and "never_returns" are those of the first open (html2markdown.py
\* line 27, html2txt.py line 96). With bytes that do not decode the first open
\* succeeded, and "read" and "never_returns" are those of the second open of
\* html2markdown.py (line 32); html2txt.py opens the file once.
\* "write_never_returns" is the open of the output path (html2markdown.py line
\* 40, html2txt.py line 110) waiting forever, on a FIFO that has no reader.
Fates ==
  [undecodable : BOOLEAN,
   failure : {"none", "read", "convert", "write", "never_returns",
              "write_never_returns"}]

\* The fates an entry can meet: open() of a directory raises; of the inputs
\* only a FIFO makes open() wait forever. The open of the output can wait
\* whatever the input is.
FatesOf(f) ==
  CASE f.kind = "dir"  -> { fate \in Fates : fate.failure = "read" /\ ~fate.undecodable }
    [] f.kind = "file" -> { fate \in Fates : fate.failure # "never_returns" }
    [] OTHER           -> Fates

\* How the work on one file ends: whether the output was written, the warning
\* and the error printed, and whether the call returned, raised, or never
\* came back.
Outcome(w, n, e) == [written |-> w, warned |-> n, error |-> e, ends |-> "returns"]

\* The call that never returns, the warning printed before or not.
Blocked(n) == [written |-> FALSE, warned |-> n, error |-> FALSE, ends |-> "never"]

\* The call left by an exception: the print of a handler raised. The output
\* may be written and the warning printed by then.
Escaped(w, n) == [written |-> w, warned |-> n, error |-> FALSE, ends |-> "raises"]

\* convert_html_to_markdown (html2markdown.py lines 19-49). A decode error
\* prints a warning and the file is opened again with errors='ignore' (line
\* 32), which can fail or never return like the first open; the text is then
\* converted and written like any other; every failure is printed and
\* swallowed. The prints go to stderr. When the warning cannot be printed
\* (warnOk false) its OSError lands in the handler of line 45 like any other
\* failure; when a handler's own print raises (errOk false) the exception
\* leaves the call.
convert_html_to_markdown(fate, warnOk, errOk) ==
  IF fate.undecodable /\ ~warnOk
  THEN IF errOk THEN Outcome(FALSE, FALSE, TRUE) ELSE Escaped(FALSE, FALSE)
  ELSE IF fate.failure \in {"never_returns", "write_never_returns"}
  THEN Blocked(fate.undecodable)
  ELSE IF fate.failure = "none" THEN Outcome(TRUE, fate.undecodable, FALSE)
  ELSE IF errOk THEN Outcome(FALSE, fate.undecodable, TRUE)
  ELSE Escaped(FALSE, fate.undecodable)

\* The body of process_directory's loop (html2txt.py lines 94-115): the file
\* is opened once, and any exception, a decode error included, is printed and
\* the file is skipped. The prints go to stdout. When the print of line 112
\* raises (savedOk false) the file is written already and the exception lands
\* in the handler; when the handler's print (line 115) raises (errOk false)
\* the exception leaves the loop.
process_file_txt(fate, savedOk, errOk) ==
  IF ~fate.undecodable /\ fate.failure \in {"never_returns", "write_never_returns"}
  THEN Blocked(FALSE)
  ELSE IF ~fate.undecodable /\ fate.failure = "none"
  THEN IF savedOk THEN Outcome(TRUE, FALSE, FALSE)
       ELSE IF errOk THEN Outcome(TRUE, FALSE, TRUE)
       ELSE Escaped(TRUE, FALSE)
  ELSE IF errOk THEN Outcome(FALSE, FALSE, TRUE)
  ELSE Escaped(FALSE, FALSE)

\* The work on one file; firstOk tells whether the print that comes first in
\* the call succeeds (the warning; the "Saved to" line), errOk whether the
\* handler's print does.
ConvertFile(sc, fate, firstOk, errOk) ==
  IF sc = "md" THEN convert_html_to_markdown(fate, firstOk, errOk)
               ELSE process_file_txt(fate, firstOk, errOk)

\* What the run keeps of one file handed to the converter: the file, whether
\* its bytes failed to decode, whether a step failed, and how the work ended.
Record(f, fate, o) ==
  [file |-> f, undecodable |-> fate.undecodable, failed |-> fate.failure # "none",
   outcome |-> o]

\* Where the loop goes after a file: the handlers (html2markdown.py lines
\* 43-49, html2txt.py lines 114-115) swallow the file's exception, so it goes
\* on, unless the call never returned or an exception left it.
AfterFile(o) ==
  CASE o.ends = "returns" -> "loop"
    [] o.ends = "never"   -> "blocked"
    [] OTHER              -> "abort"

\* main's dispatch on the kind of the input path (html2markdown.py lines
\* 109-144): the exit status it decides at once, or NotExited to go on.
DispatchExitSpecialOk(kind, name) ==
  CASE kind = "file" /\ ~IsHtmlName(name) -> 1
    [] kind = "special"                   -> 0
    [] OTHER                              -> NotExited

DispatchExit(kind, name) ==
  CASE kind = "file" /\ ~IsHtmlName(name) -> 1
    [] kind = "special"                   -> 1
    [] OTHER                              -> NotExited

\* What a run finds: the dependency importable or not; the command line
\* accepted, rejected, or asking for help; the output directory creatable or
\* not; stdout and stderr each taking every write or not (a closed pipe, a
\* file name that stdout cannot encode); and the input path.
Envs ==
  [ depOk : BOOLEAN, args : {"ok", "bad", "help"}, mkdirOk : BOOLEAN,
    stdoutOk : BOOLEAN, stderrOk : BOOLEAN,
    pathKind : {"missing", "dir", "special"}, fileName : {<<>>} ]
  \cup
  [ depOk : BOOLEAN, args : {"ok", "bad", "help"}, mkdirOk : BOOLEAN,
    stdoutOk : BOOLEAN, stderrOk : BOOLEAN,
    pathKind : {"file"},
    fileName : { Str(<<"a">>) \o ExtHtml, Str(<<"a">>) \o ExtHtm,
                 Str(<<"a">>) \o ExtUpperHtml, Str(<<"a">>) \o ExtMixedHtml,
                 Str(<<"a">>) \o ExtTxt, ExtHtml } ]

Init ==
  /\ script \in {"md", "txt"}
  /\ env \in Envs
  \* Only html2markdown.py's main creates the output directory up front.
  /\ script = "txt" => env.mkdirOk
  /\ tree \in IF env.pathKind = "dir" THEN Trees ELSE { <<>> }
  /\ cpc = "import"
  /\ idx = 1
  /\ log = <<>>
  /\ outputs = {}
  /\ file_count = 0
  /\ uncaught = "none"
  /\ exit_code = NotExited
  /\ ExtractIdle

\* The process ends with status code, exc the exception nothing caught.
Exit(code, exc) ==
  /\ cpc' = "exited"
  /\ exit_code' = code
  /\ uncaught' = exc

\* Whether a write to the stream fails: never while it takes every write.
OutRaises == IF env.stdoutOk THEN {FALSE} ELSE BOOLEAN
ErrRaises == IF env.stderrOk THEN {FALSE} ELSE BOOLEAN

\* The exit status when the interpreter shuts down after a normal end: 0, or
\* 120 when what print left in stdout's buffer cannot be flushed.
ShutdownCodes == IF env.stdoutOk THEN {0} ELSE {0, 120}

\* The exit status after an exception nothing catches: 1, or 120 when a
\* stream cannot be flushed at shutdown: stderr, which was handed the
\* traceback, or stdout when something was printed to it before (wrote). An
\* unbuffered stream (python -u) has nothing left to flush, and the status is 1.
CrashCodes(wrote) ==
  IF ~env.stderrOk \/ (wrote /\ ~env.stdoutOk) THEN {1, 120} ELSE {1}

\* An exception nothing catches ends the run.
Crash(exc, wrote) ==
  \E code \in CrashCodes(wrote) : Exit(code, exc)

\* An error message is printed to stderr and sys.exit(1) called
\* (html2markdown.py lines 10-11, 101-102, 128-129, 143-144), nothing printed
\* to stdout before. When the print raises, the exception is uncaught.
PrintErrorAndExit(code) ==
  \E r \in ErrRaises : IF r THEN Crash("print", FALSE) ELSE Exit(code, "none")

\* The last message is printed to stdout (html2markdown.py lines 84, 126;
\* html2txt.py lines 75, 117) and the script runs off its end.
PrintAndFinish ==
  \E r \in OutRaises :
    IF r THEN Crash("print", TRUE)
         ELSE \E code \in ShutdownCodes : Exit(code, "none")

\* The dependency import (html2markdown.py lines 7-11; html2txt.py line 6,
\* where the ImportError is uncaught).
Import ==
  /\ cpc = "import"
  /\ IF env.depOk
     THEN cpc' = "parse_args" /\ UNCHANGED << exit_code, uncaught >>
     ELSE IF script = "md" THEN PrintErrorAndExit(1) ELSE Crash("ImportError", FALSE)
  /\ UNCHANGED << script, env, tree, idx, log, outputs, file_count, xvars >>

\* parser.parse_args() (html2markdown.py lines 89-93; html2txt.py lines
\* 120-122): argparse exits with status 2 on a bad command line, and prints
\* the help and exits with status 0 on -h, before the path is looked at. It
\* swallows the OSError of its own writes; what it could not write fails the
\* flush at shutdown.
ParseArgs ==
  /\ cpc = "parse_args"
  /\ CASE env.args = "ok"   -> cpc' = "check_path" /\ UNCHANGED << exit_code, uncaught >>
       [] env.args = "bad"  -> \E r \in ErrRaises : Exit(IF r THEN 120 ELSE 2, "none")
       [] env.args = "help" -> \E code \in ShutdownCodes : Exit(code, "none")
  /\ UNCHANGED << script, env, tree, idx, log, outputs, file_count, xvars >>

\* html2markdown.py lines 100-102.
MdCheckExists ==
  /\ cpc = "check_path"
  /\ script = "md"
  /\ IF env.pathKind = "missing"
     THEN PrintErrorAndExit(1)
     ELSE cpc' = "dispatch" /\ UNCHANGED << exit_code, uncaught >>
  /\ UNCHANGED << script, env, tree, idx, log, outputs, file_count, xvars >>

\* html2markdown.py lines 109-144, up to the conversion: the branch taken,
\* ensure_dir(output_dir_base), whose OSError nothing catches, and the prints
\* of lines 116 or 136 and 57.
MdDispatch ==
  /\ cpc = "dispatch"
  /\ LET code == DispatchExit(env.pathKind, env.fileName)
     IN  IF code # NotExited
         THEN PrintErrorAndExit(code)
         ELSE IF ~env.mkdirOk THEN Crash("OSError", FALSE)
         ELSE \E r \in OutRaises :
                IF r THEN Crash("print", TRUE)
                ELSE /\ cpc' = IF env.pathKind = "file" THEN "single" ELSE "loop"
                     /\ UNCHANGED << exit_code, uncaught >>
  /\ UNCHANGED << script, env, tree, idx, log, outputs, file_count, xvars >>

\* html2markdown.py lines 118-126: the single input file, a regular file. The
\* print of line 124 comes before the conversion, that of line 126 after it.
MdConvertSingle ==
  /\ cpc = "single"
  /\ LET f == Entry(".", env.fileName, "file")
     IN  \E before \in OutRaises :
           IF before
           THEN /\ Crash("print", TRUE)
                /\ UNCHANGED << log, outputs >>
           ELSE \E fate \in FatesOf(f), first \in ErrRaises, handler \in ErrRaises :
                LET o == convert_html_to_markdown(fate, ~first, ~handler)
                IN  /\ log' = Append(log, Record(f, fate, o))
                    /\ outputs' = IF o.written THEN outputs \cup {OutputPath("md", f)}
                                               ELSE outputs
                    /\ CASE AfterFile(o) = "loop"    -> PrintAndFinish
                         [] AfterFile(o) = "blocked" ->
                              cpc' = "blocked" /\ UNCHANGED << exit_code, uncaught >>
                         [] OTHER                    -> Crash("print", TRUE)
  /\ UNCHANGED << script, env, tree, idx, file_count, xvars >>

\* html2txt.py lines 73-81: process_directory prints and returns on a path
\* that is no directory, and the script ends; on a directory it prints two
\* lines and starts the loop.
TxtCheckDir ==
  /\ cpc = "check_path"
  /\ script = "txt"
  /\ IF env.pathKind = "dir"
     THEN \E r \in OutRaises :
            IF r THEN Crash("print", TRUE)
                 ELSE cpc' = "loop" /\ UNCHANGED << exit_code, uncaught >>
     ELSE PrintAndFinish
  /\ UNCHANGED << script, env, tree, idx, log, outputs, file_count, xvars >>

\* One entry of the walk that the loop passes over (html2markdown.py line 73
\* false; html2txt.py lines 87-88).
SkipEntry ==
  /\ cpc = "loop"
  /\ idx <= Len(Walk(script, tree))
  /\ ~ShouldConvert(script, Walk(script, tree)[idx])
  /\ idx' = idx + 1
  /\ UNCHANGED << script, env, tree, cpc, log, outputs, file_count, uncaught, exit_code, xvars >>

\* One entry of the walk that is converted (html2markdown.py lines 73-82;
\* html2txt.py lines 93-115). The print that names the file (line 80; line 93)
\* goes to stdout and stands outside every try: when it raises the run ends
\* there, the file not attempted. The prints inside the call go to stderr in
\* html2markdown.py and to stdout in html2txt.py.
ProcessEntry ==
  /\ cpc = "loop"
  /\ idx <= Len(Walk(script, tree))
  /\ ShouldConvert(script, Walk(script, tree)[idx])
  /\ LET f == Walk(script, tree)[idx]
         InRaises == IF script = "md" THEN ErrRaises ELSE OutRaises
     IN  \E before \in OutRaises :
           IF before
           THEN /\ Crash("print", TRUE)
                /\ UNCHANGED << idx, log, outputs, file_count >>
           ELSE \E fate \in FatesOf(f), first \in InRaises, handler \in InRaises :
                LET o == ConvertFile(script, fate, ~first, ~handler)
                IN  /\ log' = Append(log, Record(f, fate, o))
                    /\ outputs' = IF o.written THEN outputs \cup {OutputPath(script, f)}
                                               ELSE outputs
                    /\ CASE AfterFile(o) = "loop" ->
                              /\ idx' = idx + 1
                              /\ file_count' = IF script = "md" THEN file_count + 1
                                                                ELSE file_count
                              /\ UNCHANGED << cpc, exit_code, uncaught >>
                         [] AfterFile(o) = "blocked" ->
                              /\ cpc' = "blocked"
                              /\ UNCHANGED << idx, file_count, exit_code, uncaught >>
                         [] OTHER ->
                              /\ Crash("print", TRUE)
                              /\ UNCHANGED << idx, file_count >>
  /\ UNCHANGED << script, env, tree, xvars >>

\* The walk is exhausted (html2markdown.py line 84; html2txt.py line 117).
LoopEnd ==
  /\ cpc = "loop"
  /\ idx > Len(Walk(script, tree))
  /\ PrintAndFinish
  /\ UNCHANGED << script, env, tree, idx, log, outputs, file_count, xvars >>

Next ==
  \/ Import
  \/ ParseArgs
  \/ MdCheckExists
  \/ MdDispatch
  \/ MdConvertSingle
  \/ TxtCheckDir
  \/ SkipEntry
  \/ ProcessEntry
  \/ LoopEnd

Spec == Init /\ [][Next]_vars

\* The scripts are sequential programs: a step that can be taken is taken. A
\* run whose open() never returns has no further step and stays where it is.
FairSpec == Spec /\ WF_vars(Next)

\* ------------------------------------------------- helpers of the properties

\* Whether text t holds the text sub somewhere.
Contains(t, sub) ==
  \E a \in 1..(Len(t) - Len(sub) + 1) : SubSeq(t, a, a + Len(sub) - 1) = sub

Rule == Str(<<"-", "-", "-">>)

\* Two "---" with nothing but whitespace between them.
DoubledRule(t) ==
  \E a, b \in 1..Len(t) :
    /\ a + 3 <= b
    /\ b + 2 <= Len(t)
    /\ SubSeq(t, a, a + 2) = Rule
    /\ SubSeq(t, b, b + 2) = Rule
    /\ \A k \in (a + 3)..(b - 1) : IsSpace(t[k])

\* How many parts the title step put in a list of parts, the empty ones dropped
\* or not.
TitleLen == Len(TitleParts(html))
FilteredTitleLen == Len(FilterParts(TitleParts(html)))

IsBlankParagraph(el) == el.kind = "p" /\ Strip(el.text) = <<>>

WithoutBlankParagraphs(d) ==
  [d EXCEPT !.children = SelectSeq(d.children, LAMBDA el : ~IsBlankParagraph(el))]

\* The files the loop hands to the converter, in order.
Converted(sc, t) == SelectSeq(Walk(sc, t), LAMBDA f : ShouldConvert(sc, f))

Attempted == [k \in 1..Len(log) |-> log[k].file]

\* The run reaches the directory loop's first print.
DirRun ==
  /\ env.depOk
  /\ env.args = "ok"
  /\ env.pathKind = "dir"
  /\ script = "md" => env.mkdirOk

\* Every write to stdout and stderr succeeds.
AllPrintsOk == env.stdoutOk /\ env.stderrOk

\* A name that ends in .html or .htm as C4 writes them.
HasHtmlExtension(n) == EndsWith(n, ExtHtml) \/ EndsWith(n, ExtHtm)

\* The path C4 expects for an input file: its extension replaced by the target's.
MirrorPath(sc, f) ==
  LET e == IF EndsWith(f.name, ExtHtml) THEN ExtHtml ELSE ExtHtm
  IN  [dir  |-> f.dir,
       name |-> SubSeq(f.name, 1, Len(f.name) - Len(e)) \o (IF sc = "md" THEN ExtMd ELSE ExtTxt)]

\* ------------------------------------------------------------- properties

\* C1: the document with title 'T' and children <p>A</p>, <hr>, <p>B</p>
\* yields exactly "T\nA\n\n---\nB\n".
C1_RoundTripExample ==
  ( /\ pc = "done"
    /\ html = [hasTitle |-> TRUE, titleText |-> Str(<<"T">>), hasDiv |-> TRUE,
               children |-> << P(Str(<<"A">>)), Hr, P(Str(<<"B">>)) >>] )
  => result = Returned(Str(<<"T", "\n", "A", "\n", "\n", "-", "-", "-", "\n", "B", "\n">>))

\* C2: the call never raises, whatever of title and container is missing, and
\* two consecutive paragraphs are separated by exactly one blank line in the
\* text it returns.
C2_NeverRaises ==
  pc = "done" =>
    /\ result.kind = "text"
    /\ \A k \in (FilteredTitleLen + 1)..(Len(filtered_parts) - 1) :
         (filtered_parts[k] # Separator /\ filtered_parts[k + 1] # Separator)
         => Contains(result.text,
                     filtered_parts[k] \o Str(<<"\n", "\n">>) \o filtered_parts[k + 1])

\* C6: the parts never hold two consecutive separators, and the returned text
\* never holds two "---" lines with no paragraph text between them.
C6_NoAdjacentSeparators ==
  /\ \A k \in 1..(Len(text_parts) - 1) :
       ~(text_parts[k] = Separator /\ text_parts[k + 1] = Separator)
  /\ \A k \in 1..(Len(filtered_parts) - 1) :
       ~(filtered_parts[k] = Separator /\ filtered_parts[k + 1] = Separator)
  /\ result.kind = "text" => ~DoubledRule(result.text)

\* C6's case: <hr> elements with nothing but a blank paragraph or whitespace
\* between them were scanned, and a text with a separator was returned.
C6_Witness ==
  /\ pc = "done"
  /\ result.kind = "text"
  /\ Contains(result.text, Rule)
  /\ \E k \in 1..(Len(html.children) - 1) :
       /\ html.children[k] = Hr
       /\ \/ html.children[k + 1] = Hr
          \/ /\ k + 2 <= Len(html.children)
             /\ IsBlankParagraph(html.children[k + 1])
             /\ html.children[k + 2] = Hr

\* C7: a paragraph that is blank after trimming is never a fragment, and the
\* call yields what it yields on the document without its blank paragraphs.
C7_BlankParagraphsVanish ==
  /\ \A k \in (TitleLen + 1)..Len(text_parts) : Strip(text_parts[k]) # <<>>
  /\ pc = "done" =>
       /\ text_parts = PartsOf(WithoutBlankParagraphs(html))
       /\ result = Extract(WithoutBlankParagraphs(html))

\* C7's case: a blank paragraph stood between other children, and a text was
\* returned.
C7_Witness ==
  /\ pc = "done"
  /\ result.kind = "text"
  /\ Len(html.children) = 3
  /\ html.children[1] = Hr
  /\ IsBlankParagraph(html.children[2])
  /\ html.children[3] = Hr

\* C8: without the content container the call returns the stripped title and
\* one newline, and "\n" alone when there is no title or the title is empty.
C8_NoContainer ==
  (pc = "done" /\ ~html.hasDiv) =>
    result = Returned((IF html.hasTitle THEN Strip(html.titleText) ELSE NoText) \o Str(<<"\n">>))

\* C8's case: a padded title and no container.
C8_Witness ==
  /\ pc = "done"
  /\ ~html.hasDiv
  /\ html.hasTitle
  /\ html.titleText = Str(<<" ", "T", "\n">>) \o Nbsp
  /\ result = Returned(Str(<<"T", "\n">>))

\* C10: scanning an <hr> appends a separator if and only if the fragment
\* emitted just before is not a separator, also when nothing was emitted yet.
C10_HrEmitsUnlessAfterSeparator ==
  [][ ( /\ pc = "scan"
        /\ pc' = "scan"
        /\ pos <= Len(html.children)
        /\ html.children[pos] = Hr )
      => ( (text_parts' = Append(text_parts, Separator))
           <=> (text_parts = <<>> \/ text_parts[Len(text_parts)] # Separator) ) ]_vars

\* C3 as stated: in directory mode the order of the walk is kept, and once the
\* loop has started the run ends with every file the loop selects handed to
\* the converter exactly once, whatever happens to a file.
C3_BatchNeverAborts ==
  /\ [](cpc = "loop" =>
          Attempted = SelectSeq(SubSeq(Walk(script, tree), 1, idx - 1),
                                LAMBDA f : ShouldConvert(script, f)))
  /\ (cpc = "loop") ~> (cpc = "exited" /\ Attempted = Converted(script, tree))

\* C4: in directory mode, when nothing fails, the output directory holds one
\* file per .html or .htm input file, at its relative path with the target
\* extension, and as many files were converted as there are input files.
C4_DirectoryMirror ==
  ( /\ cpc = "exited"
    /\ exit_code = 0
    /\ DirRun
    /\ \A k \in 1..Len(log) : log[k].outcome.written /\ ~log[k].outcome.error
    /\ \A k \in 1..Len(tree) :
         /\ tree[k].kind = "file"
         /\ ~InOutputDir(tree[k])
         /\ tree[k].name = Lower(tree[k].name) )
  => LET inputs == { f \in { tree[k] : k \in 1..Len(tree) } : HasHtmlExtension(f.name) }
         N == Cardinality(inputs)
         written == Cardinality({ k \in 1..Len(log) : log[k].outcome.written })
     IN  /\ outputs = { MirrorPath(script, f) : f \in inputs }
         /\ Cardinality(outputs) = N
         /\ (IF script = "md" THEN file_count ELSE written) = N

\* C5: in both scripts a file that fails to decode is re-read with the
\* permissive fallback, with a warning, and its output is written; read on
\* the files whose every later step succeeds, every print succeeding.
C5_FallbackInBothScripts ==
  \A k \in 1..Len(log) :
    (log[k].undecodable /\ ~log[k].failed /\ AllPrintsOk) =>
      /\ log[k].outcome.warned
      /\ log[k].outcome.written
      /\ OutputPath(script, log[k].file) \in outputs

\* The Markdown script ran to its end.
MainRan == script = "md" /\ cpc = "exited"

\* The exit status main decides when every write to stdout and stderr succeeds.
StatusTable ==
  CASE ~env.depOk           -> 1
    [] env.args = "bad"     -> 2
    [] env.args = "help"    -> 0
    [] env.pathKind \in {"missing", "special"}                  -> 1
    [] env.pathKind = "file" /\ ~IsHtmlName(env.fileName)       -> 1
    [] ~env.mkdirOk         -> 1
    [] OTHER                -> 0

\* C9 as stated: the Markdown script exits 1 exactly on a missing path, a
\* missing dependency or a single file that is not HTML, and 0 otherwise. It
\* is read on the runs whose command line is accepted, whose output directory
\* can be created and whose writes to stdout and stderr all succeed.
C9_ExitCodesAsStated ==
  (MainRan /\ env.args = "ok" /\ env.mkdirOk /\ AllPrintsOk) =>
    LET one == \/ ~env.depOk
               \/ env.pathKind = "missing"
               \/ (env.pathKind = "file" /\ ~IsHtmlName(env.fileName))
    IN  exit_code = IF one THEN 1 ELSE 0

\* C9 amended: while every write to stdout and stderr succeeds, the Markdown
\* script exits 1 on a missing dependency, or, the command line accepted, on a
\* missing path, a single file that is not HTML, a path that is neither a file
\* nor a directory, or an output directory that cannot be created; 2 on a bad
\* command line; and 0 otherwise, also on -h and when every conversion failed.
\* When a write fails the status is that one, or 1 because a print raised and
\* nothing caught it, or 120 because stdout or stderr could not be flushed at
\* exit.
C9_ExitCodes ==
  MainRan =>
    /\ AllPrintsOk => (exit_code = StatusTable /\ uncaught \in {"none", "OSError"})
    /\ uncaught = "OSError" <=>
         ( /\ ~env.mkdirOk
           /\ env.depOk /\ env.args = "ok"
           /\ \/ env.pathKind = "dir"
              \/ (env.pathKind = "file" /\ IsHtmlName(env.fileName)) )
    /\ uncaught = "OSError" => (exit_code = 1 \/ (exit_code = 120 /\ ~env.stderrOk))
    /\ uncaught = "print" => (~AllPrintsOk /\ exit_code \in {1, 120})
    /\ exit_code # StatusTable =>
         \/ exit_code = 1 /\ uncaught = "print"
         \/ exit_code = 120 /\ ~AllPrintsOk

\* C9's case: a path that is neither a file nor a directory, every write
\* succeeding.
C9_Witness ==
  /\ MainRan
  /\ env.depOk
  /\ env.args = "ok"
  /\ env.mkdirOk
  /\ AllPrintsOk
  /\ env.pathKind = "special"
  /\ exit_code = 1

====
